---- MODULE Spec2Model ----
(***************************************************************************)
(* Model of the ratio K-line core of inter-market:                         *)
(*   - calculateRatioKLine (the Ratio Reconciler), a pure function over    *)
(*     two KLineData[] arrays;                                             *)
(*   - fetchUSRatioKLine / fetchCNRatioKLine / fetchRatioKLine (the Pair   *)
(*     Orchestrator), which splits a pair symbol, fetches both legs and    *)
(*     reconciles them;                                                    *)
(*   - fetchHistoricalData (the Historical Series Fetcher), which reads    *)
(*     one chart document and turns its parallel arrays into KLineData[].  *)
(*                                                                         *)
(* Numbers.  The OHLC fields of an input bar are non-negative integers.    *)
(* A quotient computed by the code is a pair <<n, d>> with d >= 0:         *)
(*   d > 0      the rational n/d in lowest terms,                          *)
(*   <<1, 0>>   Infinity,   <<-1, 0>>  -Infinity,   <<0, 0>>  NaN.         *)
(* Division, comparison and multiplication follow IEEE-754 on the special  *)
(* values; the rounding of finite quotients is not modelled (the spec      *)
(* states its numeric properties "within floating tolerance").             *)
(***************************************************************************)
EXTENDS Integers, Sequences, FiniteSets, TLC

\* ------------------------------------------------------------------ bounds
\* Largest timestamp of a generated bar (timestamps are 1..MaxTs).
MaxTs == 2
\* Longest generated series in the alignment family of inputs.
MaxLen == 2
\* Largest OHLC value of a generated bar in the arithmetic family (0..MaxPrice).
MaxPrice == 2
\* Largest volume of a generated bar (0..MaxVolume).
MaxVolume == 1
\* Number of price levels of a generated bar in the alignment family.
MaxLevel == 2
\* Longest generated pair symbol, in characters.
MaxPairLen == 4

VARIABLES
    numeratorData,          \* calculateRatioKLine's first argument
    denominatorData,        \* calculateRatioKLine's second argument
    commonStartTimestamp,   \* the local of that name, once computed
    ratioData,              \* the returned array
    pc,                     \* "ready" before the call, "done" after it
    pairSymbol,             \* fetchRatioKLine's pairSymbol, a sequence of characters
    interval,               \* fetchRatioKLine's interval
    loadPc,                 \* "idle", "called", "awaiting", "rejected" or "resolved"
    loadError,              \* the error the returned promise rejected with
    requests,               \* the fetchHistoricalData calls issued, in order
    legState,               \* per leg: "none", "pending", "fulfilled" or "rejected"
    legData,                \* per leg: the Series its fetch was fulfilled with
    callerRange,            \* fetchRatioKLine's _range argument
    legError,               \* per leg: the error its fetch was rejected with
    settleOrder,            \* the legs in the order their fetches settled
    fetchPc,                \* fetchHistoricalData: "idle", "called", "awaiting", "returned", "threw"
    fetchArgs,              \* its symbol, range and interval
    networkReads,           \* the number of fetch(url) calls it has made
    response,               \* what fetch(url) settled with
    fetchError,             \* the error it threw
    klineData,              \* the array it returned
    calls,                  \* the calls of calculateRatioKLine made so far
    symbolInput,            \* the string given to convertToCNSymbol and searchStocks
    convertPc,              \* convertToCNSymbol: "idle", "called", "returned", "threw"
    convertResult,          \* the symbol it returned
    searchPc,               \* searchStocks: "idle", "called", "returned", "remote"
    searchResult,           \* the fullSymbols of the results it returned
    cachedConfig,           \* configService's cachedConfig, "null" or a configuration
    configPromise,          \* configService's configPromise: 0 for null, else the load it belongs to
    configLoads,            \* the loads getAppConfig has started, in order
    configEpoch,            \* the number of clearConfigCache calls so far
    configGets,             \* the getAppConfig calls made so far
    syncResult,             \* the last getAppConfigSync call: the cache it saw, what it returned
    localConfig,            \* what parseLocalConfig returns, "null" or a configuration
    selectedPair,           \* Home's selectedPair, "null" or a pair symbol
    chartMarket,            \* "cn" for isCNChart, "us" for isUSSearchChart, else "none"
    chartInterval,          \* Home's chartInterval
    chartData,              \* Home's chartData: the chart load whose data it holds, 0 for []
    chartError,             \* Home's chartError: the chart load whose error it holds, 0 for null
    chartLoading,           \* Home's chartLoading
    chartLoads,             \* the loadChartData calls started, in order
    clockNow,               \* the wall clock, in half minutes since a midnight
    nextRefreshTime,        \* Home's nextRefreshTime, on the same scale
    lastAutoRefresh,        \* the last auto-refresh: the boundary it fired for, when, the time it set
    autoRefreshes,          \* the number of auto-refreshes so far
    lastManualRefresh,      \* the last manual refresh: nextRefreshTime before and after it
    streamPc,               \* analyzeKLineWithAIStream: "idle", "fetching", "reading", "returned"
    streamFullText,         \* its fullText
    streamReads,            \* the reader.read() calls that have settled
    streamLog               \* the callbacks it has invoked, in order, with their arguments

reconcileVars == <<numeratorData, denominatorData, commonStartTimestamp, ratioData, pc>>

loadVars == <<pairSymbol, interval, loadPc, loadError, requests, legState, legData,
              callerRange, legError, settleOrder>>

fetchVars == <<fetchPc, fetchArgs, networkReads, response, fetchError, klineData>>

vars == <<numeratorData, denominatorData, commonStartTimestamp, ratioData, pc,
          pairSymbol, interval, loadPc, loadError, requests, legState, legData,
          callerRange, legError, settleOrder,
          fetchPc, fetchArgs, networkReads, response, fetchError, klineData, calls,
          symbolInput, convertPc, convertResult, searchPc, searchResult,
          cachedConfig, configPromise, configLoads, configEpoch, configGets,
          syncResult, localConfig,
          selectedPair, chartMarket, chartInterval, chartData, chartError,
          chartLoading, chartLoads,
          clockNow, nextRefreshTime, lastAutoRefresh, autoRefreshes, lastManualRefresh,
          streamPc, streamFullText, streamReads, streamLog>>

coreVars == <<reconcileVars, loadVars, fetchVars, calls>>

symbolVars == <<symbolInput, convertPc, convertResult, searchPc, searchResult>>

configVars == <<cachedConfig, configPromise, configLoads, configEpoch, configGets,
                syncResult, localConfig>>

chartVars == <<selectedPair, chartMarket, chartInterval, chartData, chartError,
               chartLoading, chartLoads>>

timerVars == <<clockNow, nextRefreshTime, lastAutoRefresh, autoRefreshes,
               lastManualRefresh>>

streamVars == <<streamPc, streamFullText, streamReads, streamLog>>

pageVars == <<symbolVars, configVars, chartVars, timerVars, streamVars>>

\* ------------------------------------------------ components not in use
SymbolIdle ==
    /\ symbolInput = <<>>
    /\ convertPc = "idle"
    /\ convertResult = <<>>
    /\ searchPc = "idle"
    /\ searchResult = <<>>

ConfigIdle ==
    /\ cachedConfig = "null"
    /\ configPromise = 0
    /\ configLoads = <<>>
    /\ configEpoch = 0
    /\ configGets = <<>>
    /\ syncResult = [cached |-> "none", returned |-> "none"]
    /\ localConfig = "null"

\* Home as mounted: no pair selected, the daily interval, no chart.
ChartIdle ==
    /\ selectedPair = "null"
    /\ chartMarket = "none"
    /\ chartInterval = "1d"
    /\ chartData = 0
    /\ chartError = 0
    /\ chartLoading = FALSE
    /\ chartLoads = <<>>

NoRefresh == [boundary |-> -1, at |-> -1, read |-> -1, next |-> -1]

NoManualRefresh == [before |-> -1, after |-> -1]

TimerIdle ==
    /\ clockNow = 0
    /\ nextRefreshTime = 0
    /\ lastAutoRefresh = NoRefresh
    /\ autoRefreshes = 0
    /\ lastManualRefresh = NoManualRefresh

StreamIdle ==
    /\ streamPc = "idle"
    /\ streamFullText = <<>>
    /\ streamReads = 0
    /\ streamLog = <<>>

PagesIdle == SymbolIdle /\ ConfigIdle /\ ChartIdle /\ TimerIdle /\ StreamIdle

\* ------------------------------------------------------- JS number helpers
Sign(n) == IF n > 0 THEN 1 ELSE IF n < 0 THEN -1 ELSE 0

Abs(n) == IF n < 0 THEN -n ELSE n

RECURSIVE GCD(_, _)
GCD(a, b) == IF b = 0 THEN a ELSE GCD(b, a % b)

NaN == <<0, 0>>

PosInfinity == <<1, 0>>

NegInfinity == <<-1, 0>>

\* The value n/d (d >= 0) in normal form.
Norm(n, d) ==
    IF d = 0 THEN <<Sign(n), 0>>
    ELSE LET g == GCD(Abs(n), d) IN <<n \div g, d \div g>>

\* Mutant: a zero divisor yields 0.
DivideGuarded(a, b) == IF b = 0 THEN <<0, 1>> ELSE Norm(a, b)

\* a / b on two non-negative integer numbers: x/0 is Infinity, 0/0 is NaN.
Divide(a, b) == Norm(a, b)

\* x * y on two quotients: Infinity * 0 is NaN, NaN is absorbing.
Times(x, y) == Norm(x[1] * y[1], x[2] * y[2])

IsNaN(x) == x = NaN

\* x < y on two quotients, neither NaN.
Less(x, y) ==
    IF x[2] = 0 /\ y[2] = 0 THEN x[1] < y[1]
    ELSE x[1] * y[2] < y[1] * x[2]

\* Math.max(...vals): NaN if any argument is NaN, else the greatest; the
\* running value starts at -Infinity.
RECURSIVE MathMaxFrom(_, _, _)
MathMaxFrom(vals, i, acc) ==
    IF i > Len(vals) THEN acc
    ELSE IF IsNaN(vals[i]) THEN NaN
    ELSE MathMaxFrom(vals, i + 1, IF Less(acc, vals[i]) THEN vals[i] ELSE acc)

MathMax(vals) == MathMaxFrom(vals, 1, NegInfinity)

\* Math.min(...vals): NaN if any argument is NaN, else the least; the running
\* value starts at +Infinity.
RECURSIVE MathMinFrom(_, _, _)
MathMinFrom(vals, i, acc) ==
    IF i > Len(vals) THEN acc
    ELSE IF IsNaN(vals[i]) THEN NaN
    ELSE MathMinFrom(vals, i + 1, IF Less(vals[i], acc) THEN vals[i] ELSE acc)

MathMin(vals) == MathMinFrom(vals, 1, PosInfinity)

\* ------------------------------------------------------ calculateRatioKLine
\* Mutant: the first element is read whatever the length.
FirstGuardAlways(data) == TRUE

\* data.length > 0, the condition under which data[0].timestamp is read.
FirstGuard(data) == Len(data) > 0

FirstTimestamp(data) == IF FirstGuard(data) THEN data[1].timestamp ELSE 0

\* Mutant: Math.min in place of Math.max.
CommonStartTimestampMin(num, den) ==
    IF FirstTimestamp(num) < FirstTimestamp(den)
    THEN FirstTimestamp(num) ELSE FirstTimestamp(den)

\* Mutant: the sum in place of Math.max.
CommonStartTimestampSum(num, den) == FirstTimestamp(num) + FirstTimestamp(den)

CommonStartTimestamp(num, den) ==
    LET numFirstTimestamp == FirstTimestamp(num)
        denomFirstTimestamp == FirstTimestamp(den)
    IN  IF numFirstTimestamp > denomFirstTimestamp
        THEN numFirstTimestamp ELSE denomFirstTimestamp

\* denominatorData.forEach(item => denomMap.set(item.timestamp, item)):
\* a later bar with the same timestamp replaces the earlier one.
RECURSIVE DenomMapFrom(_, _, _)
DenomMapFrom(den, i, m) ==
    IF i > Len(den) THEN m
    ELSE DenomMapFrom(den, i + 1,
            [t \in (DOMAIN m) \cup {den[i].timestamp} |->
                IF t = den[i].timestamp THEN den[i] ELSE m[t]])

\* Mutant: the forEach stops one item early.
DenomMapSkipLast(den) == DenomMapFrom(SubSeq(den, 1, Len(den) - 1), 1, <<>>)

DenomMap(den) == DenomMapFrom(den, 1, <<>>)

\* Mutant: the open divided by the denominator's close.
RatioOpenByClose(numItem, denomItem) == Divide(numItem.open, denomItem.close)

RatioOpen(numItem, denomItem) == Divide(numItem.open, denomItem.open)

\* Mutant: the close divided by the denominator's open.
RatioCloseByOpen(numItem, denomItem) == Divide(numItem.close, denomItem.open)

RatioClose(numItem, denomItem) == Divide(numItem.close, denomItem.close)

PossibleHighs(numItem, denomItem) ==
    <<Divide(numItem.high, denomItem.low), Divide(numItem.high, denomItem.high)>>

PossibleLows(numItem, denomItem) ==
    <<Divide(numItem.low, denomItem.high), Divide(numItem.low, denomItem.low)>>

\* Mutant: the high taken from the two candidates alone, without the clamp.
RatioHighUnclamped(numItem, denomItem) == MathMax(PossibleHighs(numItem, denomItem))

\* Mutant: the high taken from the open and close ratios alone.
RatioHighClampOnly(numItem, denomItem) ==
    MathMax(<<RatioOpen(numItem, denomItem), RatioClose(numItem, denomItem)>>)

RatioHigh(numItem, denomItem) ==
    MathMax(PossibleHighs(numItem, denomItem)
            \o <<RatioOpen(numItem, denomItem), RatioClose(numItem, denomItem)>>)

\* Mutant: the low taken from the two candidates alone, without the clamp.
RatioLowUnclamped(numItem, denomItem) == MathMin(PossibleLows(numItem, denomItem))

RatioLow(numItem, denomItem) ==
    MathMin(PossibleLows(numItem, denomItem)
            \o <<RatioOpen(numItem, denomItem), RatioClose(numItem, denomItem)>>)

\* Mutant: the denominator's volume.
RatioVolumeOfDenominator(numItem, denomItem) == denomItem.volume

RatioVolume(numItem, denomItem) == numItem.volume

\* The object pushed onto ratioData for one matched pair.
RatioBar(numItem, denomItem) ==
    [timestamp |-> numItem.timestamp,
     open      |-> RatioOpen(numItem, denomItem),
     high      |-> RatioHigh(numItem, denomItem),
     low       |-> RatioLow(numItem, denomItem),
     close     |-> RatioClose(numItem, denomItem),
     volume    |-> RatioVolume(numItem, denomItem)]

\* Mutant: the bar at the common start is skipped too.
BeforeCommonStartInclusive(numItem, commonStart) == numItem.timestamp <= commonStart

\* The guard of the first `continue`.
BeforeCommonStart(numItem, commonStart) == numItem.timestamp < commonStart

\* The guard of the second `continue`: denomMap.get found nothing.
NoDenomItem(numItem, denomMap) == numItem.timestamp \notin DOMAIN denomMap

\* Mutant: unshift in place of push.
RECURSIVE RatioLoopUnshift(_, _, _, _, _)
RatioLoopUnshift(num, denomMap, commonStart, i, acc) ==
    IF i > Len(num) THEN acc
    ELSE IF BeforeCommonStart(num[i], commonStart)
         THEN RatioLoopUnshift(num, denomMap, commonStart, i + 1, acc)
    ELSE IF NoDenomItem(num[i], denomMap)
         THEN RatioLoopUnshift(num, denomMap, commonStart, i + 1, acc)
    ELSE RatioLoopUnshift(num, denomMap, commonStart, i + 1,
                          <<RatioBar(num[i], denomMap[num[i].timestamp])>> \o acc)

\* for (const numItem of numeratorData) { ... ratioData.push(...) }
RECURSIVE RatioLoop(_, _, _, _, _)
RatioLoop(num, denomMap, commonStart, i, acc) ==
    IF i > Len(num) THEN acc
    ELSE IF BeforeCommonStart(num[i], commonStart)
         THEN RatioLoop(num, denomMap, commonStart, i + 1, acc)
    ELSE IF NoDenomItem(num[i], denomMap)
         THEN RatioLoop(num, denomMap, commonStart, i + 1, acc)
    ELSE RatioLoop(num, denomMap, commonStart, i + 1,
                   Append(acc, RatioBar(num[i], denomMap[num[i].timestamp])))

\* Mutant: the array outlives the call.
RatioDataKept == ratioData

\* const ratioData: KLineData[] = [], a new array in every call.
RatioDataFresh == <<>>

CalculateRatioKLine(num, den) ==
    RatioLoop(num, DenomMap(den), CommonStartTimestamp(num, den), 1, RatioDataFresh)

\* A property of undefined is read, which throws a TypeError: the timestamp
\* of the first element of an empty array, or a price of a denominator bar
\* the map does not hold.
Throws(num, den) ==
    \/ FirstGuard(num) /\ Len(num) = 0
    \/ FirstGuard(den) /\ Len(den) = 0
    \/ \E i \in 1..Len(num) :
           /\ ~BeforeCommonStart(num[i], CommonStartTimestamp(num, den))
           /\ ~NoDenomItem(num[i], DenomMap(den))
           /\ num[i].timestamp \notin DOMAIN DenomMap(den)

\* ------------------------------------------------------------------ inputs
RECURSIVE SeqsUpTo(_, _)
SeqsUpTo(S, n) ==
    IF n = 0 THEN {<<>>}
    ELSE LET shorter == SeqsUpTo(S, n - 1)
         IN  shorter \cup {Append(s, x) : s \in {q \in shorter : Len(q) = n - 1}, x \in S}

Bar(t, o, h, l, c, v) ==
    [timestamp |-> t, open |-> o, high |-> h, low |-> l, close |-> c, volume |-> v]

\* Alignment family: series over bars that differ in timestamp and in one
\* price level (which is also their volume), paired with series over bars of
\* level 1, in both roles, and every series paired with itself.
FlatBars == {Bar(t, p, p, p, p, p) : t \in 1..MaxTs, p \in 1..MaxLevel}

PlainBars == {Bar(t, 1, 1, 1, 1, 1) : t \in 1..MaxTs}

AlignSeries == SeqsUpTo(FlatBars, MaxLen)

PlainSeries == SeqsUpTo(PlainBars, MaxLen)

\* Arithmetic family: one numerator bar and one denominator bar at timestamp
\* 1 with every OHLC combination, zero included; the numerator takes every
\* volume, the denominator volume 0.
PriceBars(volumes) ==
    {Bar(1, o, h, l, c, v) : o \in 0..MaxPrice, h \in 0..MaxPrice,
                             l \in 0..MaxPrice, c \in 0..MaxPrice,
                             v \in volumes}

\* The scenario of spec section 8.
ScenarioNumerator ==
    <<Bar(1, 10, 10, 10, 10, 7), Bar(2, 20, 20, 20, 20, 8), Bar(3, 30, 30, 30, 30, 9)>>

ScenarioDenominator ==
    <<Bar(2, 5, 5, 5, 5, 1), Bar(3, 5, 5, 5, 5, 1), Bar(4, 5, 5, 5, 5, 1)>>

\* ------------------------------------------------------------ fetchRatioKLine
\* Strings are sequences of one-character strings.
Chars == {"A", "B", " ", "/"}

\* What destructuring yields for a missing array element.
Undefined == <<"undefined">>

\* pairSymbol.split('/'): the segments between the separators, empty ones kept.
RECURSIVE SplitFrom(_, _, _)
SplitFrom(s, i, parts) ==
    IF i > Len(s) THEN parts
    ELSE IF s[i] = "/" THEN SplitFrom(s, i + 1, Append(parts, <<>>))
    ELSE SplitFrom(s, i + 1,
            [parts EXCEPT ![Len(parts)] = Append(parts[Len(parts)], s[i])])

Split(s) == SplitFrom(s, 1, <<<<>>>>)

\* const [numerator, denominator] = pairSymbol.split('/')
Numerator(s) == Split(s)[1]

Denominator(s) == IF Len(Split(s)) >= 2 THEN Split(s)[2] ELSE Undefined

\* !x on a string or undefined.
Falsy(x) == x = Undefined \/ x = <<>>

\* Mutant: only the denominator is tested.
InvalidPairDenominatorOnly(s) == Falsy(Denominator(s))

\* if (!numerator || !denominator) throw ...
InvalidPair(s) == Falsy(Numerator(s)) \/ Falsy(Denominator(s))

\* String.prototype.trim over the one whitespace character of Chars.
RECURSIVE TrimStart(_)
TrimStart(s) ==
    IF s # <<>> /\ s[1] = " " THEN TrimStart(Tail(s)) ELSE s

RECURSIVE TrimEnd(_)
TrimEnd(s) ==
    IF s # <<>> /\ s[Len(s)] = " " THEN TrimEnd(SubSeq(s, 1, Len(s) - 1)) ELSE s

Trim(s) == TrimEnd(TrimStart(s))

Intervals == {"1d", "1wk", "1mo", "1h", "1D", ""}

\* The values a caller passes as fetchRatioKLine's _range.
CallerRanges == {"max", "1y"}

\* Mutant: the default branch returns 'max'.
GetAppropriateRangeDefaultMax(iv) ==
    CASE iv = "1d" -> "2y"
      [] iv = "1wk" -> "10y"
      [] OTHER -> "max"

GetAppropriateRange(iv) ==
    CASE iv = "1d" -> "2y"
      [] iv = "1wk" -> "10y"
      [] iv = "1mo" -> "max"
      [] OTHER -> "2y"

Legs == {1, 2}

NoError == [kind |-> "none", detail |-> <<>>]

\* throw new Error(`Invalid trading pair: ${pairSymbol}`)
InvalidPairFailure(s) == [kind |-> "InvalidPair", detail |-> s]

\* throw new Error(`Failed to fetch ${symbol} historical data: ...`)
FetchFailure(symbol) == [kind |-> "FetchFailure", detail |-> symbol]

\* throw new Error(`Could not get historical data for ${symbol}`)
NoDataFailure(symbol) == [kind |-> "NoDataFailure", detail |-> symbol]

\* What the market-data collaborator can answer to one request: a non-2xx
\* status, a document without result or timestamps, or data for a Series.
UpstreamSeries ==
    {<<>>, <<Bar(1, 2, 2, 1, 1, 1)>>, <<Bar(1, 1, 2, 1, 2, 0), Bar(2, 2, 2, 2, 2, 1)>>}

UpstreamAnswers ==
    {[status |-> "notOk", data |-> <<>>], [status |-> "noResult", data |-> <<>>]}
        \cup {[status |-> "ok", data |-> series] : series \in UpstreamSeries}

\* ------------------------------------------------------- fetchHistoricalData
\* Longest timestamp array of a generated response in the gap family.
MaxRows == 3

\* An entry of one of the parallel arrays of indicators.quote[0]: null, a
\* number, or undefined where the array has no entry at the index.
Null == [kind |-> "null", val |-> 0]

Absent == [kind |-> "undefined", val |-> 0]

Num(v) == [kind |-> "number", val |-> v]

\* The entries of the six arrays at one index.
RawRow(t, o, h, l, c, v) ==
    [timestamp |-> t, open |-> o, high |-> h, low |-> l, close |-> c, volume |-> v]

\* result.timestamp and the arrays of result.indicators.quote[0], from the
\* entries at each index.
Columns(rows) ==
    [timestamp |-> [i \in 1..Len(rows) |-> rows[i].timestamp],
     open |-> [i \in 1..Len(rows) |-> rows[i].open],
     high |-> [i \in 1..Len(rows) |-> rows[i].high],
     low |-> [i \in 1..Len(rows) |-> rows[i].low],
     close |-> [i \in 1..Len(rows) |-> rows[i].close],
     volume |-> [i \in 1..Len(rows) |-> rows[i].volume]]

\* Variety family: one index, every OHLC entry a positive number, zero, null
\* or undefined, the volume a positive number, zero, null or undefined.
VarietyRows ==
    {RawRow(100, o, h, l, c, v) :
        o \in {Num(3), Num(0), Null, Absent}, h \in {Num(4), Num(0), Null, Absent},
        l \in {Num(1), Num(0), Null, Absent}, c \in {Num(2), Num(0), Null, Absent},
        v \in {Num(1), Num(0), Null, Absent}}

\* Gap family: up to MaxRows indices, each one complete, null in all OHLC
\* arrays, or lacking its close alone.
GapKinds == {"full", "gap", "noClose"}

GapRow(i, kind) ==
    CASE kind = "full" -> RawRow(100 * i, Num(3), Num(4), Num(1), Num(2), Num(i))
      [] kind = "gap" -> RawRow(100 * i, Null, Null, Null, Null, Null)
      [] OTHER -> RawRow(100 * i, Num(3), Num(4), Num(1), Absent, Num(i))

GapRows == {[i \in 1..Len(kinds) |-> GapRow(i, kinds[i])] : kinds \in SeqsUpTo(GapKinds, MaxRows)}

\* open=[1,null,3], high=[2,null,4], low=[0.5,null,2], close=[1.5,null,3.5],
\* timestamp=[100,200,300], the prices counted in halves.
ScenarioRows ==
    <<RawRow(100, Num(2), Num(4), Num(1), Num(3), Num(1)),
      RawRow(200, Null, Null, Null, Null, Null),
      RawRow(300, Num(6), Num(8), Num(4), Num(7), Num(1))>>

RawResults ==
    {Columns(<<row>>) : row \in VarietyRows}
        \cup {Columns(rows) : rows \in GapRows}
        \cup {Columns(ScenarioRows)}

\* What fetch(url) settles with: a transport error, or a response with its ok
\* flag and the parsed document's chart.result[0] and result.timestamp.
Response(transport, ok, hasResult, hasTimestamp, result) ==
    [transport |-> transport, ok |-> ok, hasResult |-> hasResult,
     hasTimestamp |-> hasTimestamp, result |-> result]

NoResponse == Response("none", FALSE, FALSE, FALSE, Columns(<<>>))

Responses ==
    {Response("error", FALSE, FALSE, FALSE, Columns(<<>>)),
     Response("ok", FALSE, FALSE, FALSE, Columns(<<>>)),
     Response("ok", TRUE, FALSE, FALSE, Columns(<<>>)),
     Response("ok", TRUE, TRUE, FALSE, Columns(<<>>))}
        \cup {Response("ok", TRUE, TRUE, TRUE, result) : result \in RawResults}

\* The TypeError fetch rejects with when the request cannot be made.
TransportError == [kind |-> "TypeError", detail |-> <<>>]

\* Mutant: === null.
IsNullishStrict(entry) == entry.kind = "null"

\* x == null
IsNullish(entry) == entry.kind \in {"null", "undefined"}

\* quote.volume[i] || 0
VolumeOrZero(entry) == IF entry.kind = "number" /\ entry.val # 0 THEN entry.val ELSE 0

\* Mutant: a null volume skips the index too.
SkipIndexWithVolume(result, i) ==
    \/ IsNullish(result.open[i])
    \/ IsNullish(result.high[i])
    \/ IsNullish(result.low[i])
    \/ IsNullish(result.close[i])
    \/ IsNullish(result.volume[i])

\* The guard of the loop's `continue`.
SkipIndex(result, i) ==
    \/ IsNullish(result.open[i])
    \/ IsNullish(result.high[i])
    \/ IsNullish(result.low[i])
    \/ IsNullish(result.close[i])

\* The object pushed for index i.
KLineBar(result, i) ==
    Bar(result.timestamp[i] * 1000, result.open[i].val, result.high[i].val,
        result.low[i].val, result.close[i].val, VolumeOrZero(result.volume[i]))

\* for (let i = 0; i < timestamp.length; i++) { ... klineData.push(...) }
RECURSIVE KLineLoop(_, _, _)
KLineLoop(result, i, acc) ==
    IF i > Len(result.timestamp) THEN acc
    ELSE IF SkipIndex(result, i) THEN KLineLoop(result, i + 1, acc)
    ELSE KLineLoop(result, i + 1, Append(acc, KLineBar(result, i)))

\* Mutant: only !result is tested.
MissingResultOnly(resp) == ~resp.hasResult

\* !result || !result.timestamp
MissingResult(resp) == ~resp.hasResult \/ ~resp.hasTimestamp

\* Mutant: the caller's range is passed on.
FetchCallCallerRange(symbol, iv) ==
    [symbol |-> symbol, range |-> callerRange, interval |-> iv]

\* fetchHistoricalData(symbol, range, interval) as the orchestrator calls it.
FetchCall(symbol, iv) ==
    [symbol |-> symbol, range |-> GetAppropriateRange(iv), interval |-> iv]

FetchIdle ==
    /\ fetchPc = "idle"
    /\ fetchArgs = FetchCall(<<>>, "1d")
    /\ networkReads = 0
    /\ response = NoResponse
    /\ fetchError = NoError
    /\ klineData = <<>>

\* Mutant: the second fetch is not started with the first.
FetchRatioKLineStartSequential ==
    /\ loadPc = "called"
    /\ IF InvalidPair(pairSymbol)
       THEN /\ loadPc' = "rejected"
            /\ loadError' = InvalidPairFailure(pairSymbol)
            /\ UNCHANGED <<requests, legState>>
       ELSE /\ loadPc' = "awaiting"
            /\ requests' = <<FetchCall(Trim(Numerator(pairSymbol)), interval)>>
            /\ legState' = [leg \in Legs |-> IF leg = 1 THEN "pending" ELSE "none"]
            /\ UNCHANGED loadError
    /\ UNCHANGED <<pairSymbol, interval, legData, callerRange, legError, settleOrder>>
    /\ UNCHANGED reconcileVars
    /\ UNCHANGED <<fetchVars, calls, pageVars>>

\* The synchronous part of fetchRatioKLine: split, validate, start both fetches.
FetchRatioKLineStart ==
    /\ loadPc = "called"
    /\ IF InvalidPair(pairSymbol)
       THEN /\ loadPc' = "rejected"
            /\ loadError' = InvalidPairFailure(pairSymbol)
            /\ UNCHANGED <<requests, legState>>
       ELSE /\ loadPc' = "awaiting"
            /\ requests' = <<FetchCall(Trim(Numerator(pairSymbol)), interval),
                             FetchCall(Trim(Denominator(pairSymbol)), interval)>>
            /\ legState' = [leg \in Legs |-> "pending"]
            /\ UNCHANGED loadError
    /\ UNCHANGED <<pairSymbol, interval, legData, callerRange, legError, settleOrder>>
    /\ UNCHANGED reconcileVars
    /\ UNCHANGED <<fetchVars, calls, pageVars>>

\* The error one leg's fetchHistoricalData throws for an answer that is not data.
LegFailure(answer, symbol) ==
    IF answer.status = "notOk" THEN FetchFailure(symbol) ELSE NoDataFailure(symbol)

\* Mutant: every rejection reaches the returned promise, the last one staying.
PromiseAllPendingAlways == loadPc \in {"awaiting", "rejected"}

\* Promise.all has neither resolved nor rejected yet.
PromiseAllPending == loadPc = "awaiting"

\* One leg's fetchHistoricalData settles.  Promise.all rejects with the first
\* rejection it sees and resolves once both legs are fulfilled; the
\* continuation then returns calculateRatioKLine(numeratorData, denominatorData).
LegSettles(leg, answer) ==
    /\ legState[leg] = "pending"
    /\ settleOrder' = Append(settleOrder, leg)
    /\ LET other == CHOOSE l \in Legs : l # leg
           failed == answer.status # "ok"
           data == [legData EXCEPT ![leg] = answer.data]
           err == LegFailure(answer, requests[leg].symbol)
       IN  /\ legState' = [legState EXCEPT ![leg] = IF failed THEN "rejected" ELSE "fulfilled"]
           /\ IF failed
              THEN /\ legError' = [legError EXCEPT ![leg] = err]
                   /\ IF PromiseAllPending
                      THEN /\ loadPc' = "rejected"
                           /\ loadError' = err
                      ELSE UNCHANGED <<loadPc, loadError>>
                   /\ UNCHANGED legData
                   /\ UNCHANGED reconcileVars
              ELSE /\ legData' = data
                   /\ IF PromiseAllPending /\ legState[other] = "fulfilled"
                      THEN /\ loadPc' = "resolved"
                           /\ numeratorData' = data[1]
                           /\ denominatorData' = data[2]
                           /\ commonStartTimestamp' = CommonStartTimestamp(data[1], data[2])
                           /\ ratioData' = CalculateRatioKLine(data[1], data[2])
                           /\ pc' = "done"
                      ELSE /\ UNCHANGED loadPc
                           /\ UNCHANGED reconcileVars
                   /\ UNCHANGED <<loadError, legError>>
    /\ UNCHANGED <<pairSymbol, interval, requests, callerRange>>
    /\ UNCHANGED <<fetchVars, calls, pageVars>>

\* A pair symbol of three segments, longer than the enumerated ones.
ThreeSegmentPair == <<"A", "/", "B", "/", "A">>

PairSymbols == SeqsUpTo(Chars, MaxPairLen) \cup {ThreeSegmentPair}

InitLoad ==
    /\ pairSymbol \in PairSymbols
    /\ interval \in Intervals
    /\ loadPc = "called"
    /\ loadError = NoError
    /\ requests = <<>>
    /\ legState = [leg \in Legs |-> "none"]
    /\ legData = [leg \in Legs |-> <<>>]
    /\ callerRange \in CallerRanges
    /\ legError = [leg \in Legs |-> NoError]
    /\ settleOrder = <<>>
    /\ numeratorData = <<>>
    /\ denominatorData = <<>>
    /\ commonStartTimestamp = 0
    /\ ratioData = <<>>
    /\ pc = "ready"
    /\ FetchIdle
    /\ calls = <<>>
    /\ PagesIdle

NextLoad ==
    \/ FetchRatioKLineStart
    \/ \E leg \in Legs : \E answer \in UpstreamAnswers : LegSettles(leg, answer)

SpecLoad == InitLoad /\ [][NextLoad]_vars

\* ------------------------------------------- specification of the fetcher
FetchSymbols == {<<"A">>, <<"B">>}

InitFetch ==
    /\ fetchPc = "called"
    /\ \E symbol \in FetchSymbols : \E iv \in {"1d", "1mo"} : fetchArgs = FetchCall(symbol, iv)
    /\ networkReads = 0
    /\ response = NoResponse
    /\ fetchError = NoError
    /\ klineData = <<>>
    /\ numeratorData = <<>>
    /\ denominatorData = <<>>
    /\ commonStartTimestamp = 0
    /\ ratioData = <<>>
    /\ pc = "ready"
    /\ pairSymbol = <<>>
    /\ interval = "1d"
    /\ loadPc = "idle"
    /\ loadError = NoError
    /\ requests = <<>>
    /\ legState = [leg \in Legs |-> "none"]
    /\ legData = [leg \in Legs |-> <<>>]
    /\ callerRange = "max"
    /\ legError = [leg \in Legs |-> NoError]
    /\ settleOrder = <<>>
    /\ calls = <<>>
    /\ PagesIdle

\* const response = await fetch(url): the request is made and awaited.
FetchHistoricalDataCall ==
    /\ fetchPc = "called"
    /\ networkReads' = networkReads + 1
    /\ fetchPc' = "awaiting"
    /\ UNCHANGED <<fetchArgs, response, fetchError, klineData>>
    /\ UNCHANGED <<reconcileVars, loadVars, calls, pageVars>>

\* fetch(url) settles and the rest of fetchHistoricalData runs: the ok test,
\* response.json(), the result test and the loop over the timestamps.
FetchSettles(resp) ==
    /\ fetchPc = "awaiting"
    /\ response' = resp
    /\ IF resp.transport = "error"
       THEN /\ fetchPc' = "threw"
            /\ fetchError' = TransportError
            /\ UNCHANGED klineData
       ELSE IF ~resp.ok
       THEN /\ fetchPc' = "threw"
            /\ fetchError' = FetchFailure(fetchArgs.symbol)
            /\ UNCHANGED klineData
       ELSE IF MissingResult(resp)
       THEN /\ fetchPc' = "threw"
            /\ fetchError' = NoDataFailure(fetchArgs.symbol)
            /\ UNCHANGED klineData
       ELSE /\ fetchPc' = "returned"
            /\ klineData' = KLineLoop(resp.result, 1, <<>>)
            /\ UNCHANGED fetchError
    /\ UNCHANGED <<fetchArgs, networkReads>>
    /\ UNCHANGED <<reconcileVars, loadVars, calls, pageVars>>

NextFetch ==
    \/ FetchHistoricalDataCall
    \/ \E resp \in Responses : FetchSettles(resp)

SpecFetch == InitFetch /\ [][NextFetch]_vars

\* ----------------------------------------------------------- specification of the reconciler
Init ==
    /\ \/ \E n \in AlignSeries : \E d \in PlainSeries :
              numeratorData = n /\ denominatorData = d
       \/ \E n \in PlainSeries : \E d \in AlignSeries :
              numeratorData = n /\ denominatorData = d
       \/ \E s \in AlignSeries :
              numeratorData = s /\ denominatorData = s
       \/ \E n \in PriceBars(0..MaxVolume) : \E d \in PriceBars({0}) :
              numeratorData = <<n>> /\ denominatorData = <<d>>
       \/ numeratorData = ScenarioNumerator /\ denominatorData = ScenarioDenominator
    /\ commonStartTimestamp = 0
    /\ ratioData = <<>>
    /\ pc = "ready"
    /\ pairSymbol = <<>>
    /\ interval = "1d"
    /\ loadPc = "idle"
    /\ loadError = NoError
    /\ requests = <<>>
    /\ legState = [leg \in Legs |-> "none"]
    /\ legData = [leg \in Legs |-> <<>>]
    /\ callerRange = "max"
    /\ legError = [leg \in Legs |-> NoError]
    /\ settleOrder = <<>>
    /\ FetchIdle
    /\ calls = <<>>
    /\ PagesIdle

\* What the log of calls keeps of one call.
CallRecord(num, den, threw, result, numAfter, denAfter) ==
    [numerator |-> num, denominator |-> den, threw |-> threw, result |-> result,
     numeratorAfter |-> numAfter, denominatorAfter |-> denAfter]

\* One call of calculateRatioKLine(numeratorData, denominatorData).
CalculateRatioKLineCall ==
    /\ pc = "ready"
    /\ IF Throws(numeratorData, denominatorData)
       THEN /\ pc' = "threw"
            /\ UNCHANGED <<commonStartTimestamp, ratioData>>
       ELSE /\ commonStartTimestamp' = CommonStartTimestamp(numeratorData, denominatorData)
            /\ ratioData' = CalculateRatioKLine(numeratorData, denominatorData)
            /\ pc' = "done"
    /\ UNCHANGED <<numeratorData, denominatorData>>
    /\ calls' = Append(calls, CallRecord(numeratorData, denominatorData, pc' = "threw",
                                         ratioData', numeratorData', denominatorData'))
    /\ UNCHANGED <<loadVars, fetchVars, pageVars>>

Next == CalculateRatioKLineCall

Spec == Init /\ [][Next]_vars

\* ------------------------------------------- specification of repeated calls
\* Most calls of calculateRatioKLine in one run.
MaxCalls == 3

CallInputs ==
    {<<>>, <<Bar(1, 1, 1, 1, 1, 1)>>, <<Bar(1, 2, 2, 2, 2, 1), Bar(2, 1, 1, 1, 1, 0)>>}

InitCalls ==
    /\ numeratorData \in CallInputs
    /\ denominatorData \in CallInputs
    /\ commonStartTimestamp = 0
    /\ ratioData = <<>>
    /\ pc = "ready"
    /\ calls = <<>>
    /\ PagesIdle
    /\ pairSymbol = <<>>
    /\ interval = "1d"
    /\ loadPc = "idle"
    /\ loadError = NoError
    /\ requests = <<>>
    /\ legState = [leg \in Legs |-> "none"]
    /\ legData = [leg \in Legs |-> <<>>]
    /\ callerRange = "max"
    /\ legError = [leg \in Legs |-> NoError]
    /\ settleOrder = <<>>
    /\ FetchIdle

\* The caller, holding the last result, sets up another call.
CalculateRatioKLineAgain ==
    /\ pc = "done"
    /\ Len(calls) < MaxCalls
    /\ numeratorData' \in CallInputs
    /\ denominatorData' \in CallInputs
    /\ pc' = "ready"
    /\ UNCHANGED <<commonStartTimestamp, ratioData, calls>>
    /\ UNCHANGED <<loadVars, fetchVars, pageVars>>

NextCalls ==
    \/ CalculateRatioKLineCall
    \/ CalculateRatioKLineAgain

SpecCalls == InitCalls /\ [][NextCalls]_vars

\* --------------------------------------------------- the core not in use
CoreIdle ==
    /\ numeratorData = <<>>
    /\ denominatorData = <<>>
    /\ commonStartTimestamp = 0
    /\ ratioData = <<>>
    /\ pc = "ready"
    /\ calls = <<>>
    /\ pairSymbol = <<>>
    /\ interval = "1d"
    /\ loadPc = "idle"
    /\ loadError = NoError
    /\ requests = <<>>
    /\ legState = [leg \in Legs |-> "none"]
    /\ legData = [leg \in Legs |-> <<>>]
    /\ callerRange = "max"
    /\ legError = [leg \in Legs |-> NoError]
    /\ settleOrder = <<>>
    /\ FetchIdle

\* ------------------------------------ convertToCNSymbol and searchStocks
\* Longest generated input in the malformed family, in characters.
MaxCodeLen == 7

Digits == {"0", "1", "2", "3", "4", "5", "6", "7", "8", "9"}

\* String.prototype.toUpperCase over the letters the inputs use.
UpperChar(ch) ==
    CASE ch = "s" -> "S"
      [] ch = "z" -> "Z"
      [] ch = "x" -> "X"
      [] OTHER -> ch

ToUpperCase(str) == [i \in 1..Len(str) |-> UpperChar(str[i])]

\* str.includes(sub)
Includes(str, sub) ==
    \E i \in 1..(Len(str) - Len(sub) + 1) : SubSeq(str, i, i + Len(sub) - 1) = sub

\* code.replace(/\D/g, '')
IsDigit(ch) == ch \in Digits

DigitsOf(str) == SelectSeq(str, IsDigit)

\* code.substring(0, n)
Substring(str, n) == SubSeq(str, 1, IF n < Len(str) THEN n ELSE Len(str))

\* Mutant: the 43 prefix is not tested.
GetMarketFromCodeWithout43(code) ==
    LET firstDigit == Substring(code, 1)
        firstTwo == Substring(code, 2)
        firstThree == Substring(code, 3)
    IN  IF \/ firstDigit = <<"8">>
           \/ firstTwo = <<"8", "3">> \/ firstTwo = <<"8", "7">> \/ firstTwo = <<"8", "8">>
        THEN "BJ"
        ELSE IF firstDigit = <<"6">> \/ firstThree = <<"6", "8", "8">> \/ firstTwo = <<"5", "1">>
        THEN "SH"
        ELSE IF firstDigit = <<"0">> \/ firstDigit = <<"3">> \/ firstTwo = <<"1", "5">>
        THEN "SZ"
        ELSE "SH"

GetMarketFromCode(code) ==
    LET firstDigit == Substring(code, 1)
        firstTwo == Substring(code, 2)
        firstThree == Substring(code, 3)
    IN  IF \/ firstDigit = <<"8">> \/ firstTwo = <<"4", "3">>
           \/ firstTwo = <<"8", "3">> \/ firstTwo = <<"8", "7">> \/ firstTwo = <<"8", "8">>
        THEN "BJ"
        ELSE IF firstDigit = <<"6">> \/ firstThree = <<"6", "8", "8">> \/ firstTwo = <<"5", "1">>
        THEN "SH"
        ELSE IF firstDigit = <<"0">> \/ firstDigit = <<"3">> \/ firstTwo = <<"1", "5">>
        THEN "SZ"
        ELSE "SH"

ConvertCodeToYahoo(code, market) ==
    CASE market = "SH" -> code \o <<".", "S", "S">>
      [] market = "SZ" -> code \o <<".", "S", "Z">>
      [] market = "BJ" -> code \o <<".", "B", "J">>
      [] OTHER -> code \o <<".", "S", "S">>

ConvertToFullSymbol(code) == ConvertCodeToYahoo(code, GetMarketFromCode(code))

\* /^\d{6}$/.test(query)
IsSixDigits(query) == Len(query) = 6 /\ \A i \in 1..6 : IsDigit(query[i])

\* The input already carries an exchange suffix.
HasSuffix(code) ==
    \/ Includes(code, <<".", "S", "S">>)
    \/ Includes(code, <<".", "S", "Z">>)
    \/ Includes(code, <<".", "B", "J">>)

\* Whether convertToCNSymbol throws for the input.
ConvertThrows(input) ==
    LET code == ToUpperCase(Trim(input))
    IN  ~HasSuffix(code) /\ Len(DigitsOf(code)) # 6

\* What convertToCNSymbol returns for an input it does not throw for.
ConvertToCNSymbol(input) ==
    LET code == ToUpperCase(Trim(input))
        numericCode == DigitsOf(code)
        firstDigit == Substring(numericCode, 1)
        firstTwo == Substring(numericCode, 2)
        firstThree == Substring(numericCode, 3)
    IN  IF HasSuffix(code) THEN code
        ELSE IF \/ firstDigit = <<"8">> \/ firstTwo = <<"4", "3">>
                \/ firstTwo = <<"8", "3">> \/ firstTwo = <<"8", "7">> \/ firstTwo = <<"8", "8">>
        THEN numericCode \o <<".", "B", "J">>
        ELSE IF firstDigit = <<"6">> \/ firstThree = <<"6", "8", "8">> \/ firstTwo = <<"5", "1">>
        THEN numericCode \o <<".", "S", "S">>
        ELSE IF firstDigit = <<"0">> \/ firstDigit = <<"3">> \/ firstTwo = <<"1", "5">>
        THEN numericCode \o <<".", "S", "Z">>
        ELSE numericCode \o <<".", "S", "S">>

\* Code family: every three-digit beginning, followed by 000.
CodeInputs == {<<a, b, c, "0", "0", "0">> : a \in Digits, b \in Digits, c \in Digits}

\* Malformed family: strings of a digit, a letter and a blank.
MalformedInputs == SeqsUpTo({"6", "x", " "}, MaxCodeLen)

\* Inputs that carry a suffix, in either case.
SuffixInputs ==
    {<<"6", "0", "0", "0", "0", "0", ".", "S", "S">>, <<"1", ".", "s", "z">>,
     <<"0", "0", "0", "0", "0", "1", ".", "S", "Z">>}

SymbolInputs == CodeInputs \cup MalformedInputs \cup SuffixInputs

InitSymbol ==
    /\ symbolInput \in SymbolInputs
    /\ convertPc = "called"
    /\ convertResult = <<>>
    /\ searchPc = "called"
    /\ searchResult = <<>>
    /\ CoreIdle
    /\ ConfigIdle
    /\ ChartIdle
    /\ TimerIdle
    /\ StreamIdle

\* One call of convertToCNSymbol(symbolInput).
ConvertToCNSymbolCall ==
    /\ convertPc = "called"
    /\ IF ConvertThrows(symbolInput)
       THEN convertPc' = "threw" /\ UNCHANGED convertResult
       ELSE convertPc' = "returned" /\ convertResult' = ConvertToCNSymbol(symbolInput)
    /\ UNCHANGED <<symbolInput, searchPc, searchResult>>
    /\ UNCHANGED <<coreVars, configVars, chartVars, timerVars, streamVars>>

\* One call of searchStocks(symbolInput), up to the point where it either
\* returns without a request or asks the search service.
SearchStocksCall ==
    /\ searchPc = "called"
    /\ LET query == Trim(symbolInput)
       IN  IF symbolInput = <<>> \/ Len(query) = 0
           THEN searchPc' = "returned" /\ searchResult' = <<>>
           ELSE IF IsSixDigits(query)
           THEN searchPc' = "returned" /\ searchResult' = <<ConvertToFullSymbol(query)>>
           ELSE searchPc' = "remote" /\ UNCHANGED searchResult
    /\ UNCHANGED <<symbolInput, convertPc, convertResult>>
    /\ UNCHANGED <<coreVars, configVars, chartVars, timerVars, streamVars>>

NextSymbol ==
    \/ ConvertToCNSymbolCall
    \/ SearchStocksCall

SpecSymbol == InitSymbol /\ [][NextSymbol]_vars

\* ----------------------------------------------------------- configService
\* Most loads started, clearConfigCache calls and getAppConfig calls in a run.
MaxLoads == 3

MaxClears == 2

MaxGets == 3

\* DEFAULT_CONFIG, and the configurations /api/config can answer with.
DefaultConfig == "default"

ApiConfigs == {"configA", "configB"}

\* What fetchConfigFromAPI resolves to: the configuration of the answer, or
\* DEFAULT_CONFIG when the request fails, the response is not ok, or the
\* answer has no cnBenchmarkEtfs.
ApiOutcomes == ApiConfigs \cup {DefaultConfig}

\* One load: the async closure assigned to configPromise.
ConfigLoad(epoch, source, state, value) ==
    [epoch |-> epoch, source |-> source, state |-> state, value |-> value]

\* One getAppConfig call: the epoch it was made in and either the
\* configuration it returned from the cache or the load whose promise it returned.
ConfigGet(epoch, load, value) == [epoch |-> epoch, load |-> load, value |-> value]

InitConfig ==
    /\ cachedConfig = "null"
    /\ configPromise = 0
    /\ configLoads = <<>>
    /\ configEpoch = 0
    /\ configGets = <<>>
    /\ syncResult = [cached |-> "none", returned |-> "none"]
    /\ localConfig \in {"null", "local"}
    /\ CoreIdle
    /\ SymbolIdle
    /\ ChartIdle
    /\ TimerIdle
    /\ StreamIdle

\* getAppConfig(), up to the return of a configuration or of a promise.
GetAppConfig ==
    /\ Len(configGets) < MaxGets
    /\ IF cachedConfig # "null"
       THEN /\ configGets' = Append(configGets, ConfigGet(configEpoch, 0, cachedConfig))
            /\ UNCHANGED <<cachedConfig, configPromise, configLoads>>
       ELSE IF configPromise # 0
       THEN /\ configGets' = Append(configGets, ConfigGet(configEpoch, configPromise, "null"))
            /\ UNCHANGED <<cachedConfig, configPromise, configLoads>>
       ELSE /\ Len(configLoads) < MaxLoads
            /\ configPromise' = Len(configLoads) + 1
            /\ configGets' = Append(configGets, ConfigGet(configEpoch, Len(configLoads) + 1, "null"))
            /\ IF localConfig # "null"
               THEN /\ cachedConfig' = localConfig
                    /\ configLoads' = Append(configLoads,
                                             ConfigLoad(configEpoch, "local", "done", localConfig))
               ELSE /\ configLoads' = Append(configLoads,
                                             ConfigLoad(configEpoch, "api", "pending", "null"))
                    /\ UNCHANGED cachedConfig
    /\ UNCHANGED <<configEpoch, syncResult, localConfig>>
    /\ UNCHANGED <<coreVars, symbolVars, chartVars, timerVars, streamVars>>

\* cachedConfig = await fetchConfigFromAPI(): the request of one load settles.
ConfigLoadSettles(load, outcome) ==
    /\ load \in 1..Len(configLoads)
    /\ configLoads[load].state = "pending"
    /\ cachedConfig' = outcome
    /\ configLoads' = [configLoads EXCEPT ![load].state = "done", ![load].value = outcome]
    /\ UNCHANGED <<configPromise, configEpoch, configGets, syncResult, localConfig>>
    /\ UNCHANGED <<coreVars, symbolVars, chartVars, timerVars, streamVars>>

\* getAppConfigSync()
GetAppConfigSync ==
    /\ syncResult' = [cached |-> cachedConfig,
                      returned |-> IF cachedConfig # "null" THEN cachedConfig
                                   ELSE DefaultConfig]
    /\ UNCHANGED <<cachedConfig, configPromise, configLoads, configEpoch, configGets,
                   localConfig>>
    /\ UNCHANGED <<coreVars, symbolVars, chartVars, timerVars, streamVars>>

\* clearConfigCache()
ClearConfigCache ==
    /\ configEpoch < MaxClears
    /\ cachedConfig' = "null"
    /\ configPromise' = 0
    /\ configEpoch' = configEpoch + 1
    /\ UNCHANGED <<configLoads, configGets, syncResult, localConfig>>
    /\ UNCHANGED <<coreVars, symbolVars, chartVars, timerVars, streamVars>>

NextConfig ==
    \/ GetAppConfig
    \/ \E load \in 1..MaxLoads : \E outcome \in ApiOutcomes : ConfigLoadSettles(load, outcome)
    \/ GetAppConfigSync
    \/ ClearConfigCache

SpecConfig == InitConfig /\ [][NextConfig]_vars

\* ------------------------------------------------- Home: the chart loader
\* Most loadChartData calls in a run.
MaxChartLoads == 3

ChartPairs == {"P/Q", "Q/P"}

ChartIntervals == {"1d", "1wk"}

\* One loadChartData call: the values its closure captured, and where it stands.
ChartLoad(pair, market, iv, state) ==
    [pair |-> pair, market |-> market, interval |-> iv, state |-> state]

InitHome ==
    /\ ChartIdle
    /\ CoreIdle
    /\ SymbolIdle
    /\ ConfigIdle
    /\ TimerIdle
    /\ StreamIdle

\* The effect on [selectedPair, chartInterval, isCNChart, isUSSearchChart],
\* run once these have the values pair, market and iv: without a pair it
\* empties the chart, with one it starts loadChartData, which sets the
\* loading flag, clears the error and awaits the fetch.
ChartEffect(pair, market, iv) ==
    IF pair = "null"
    THEN /\ chartData' = 0
         /\ chartError' = 0
         /\ UNCHANGED <<chartLoading, chartLoads>>
    ELSE /\ chartLoading' = TRUE
         /\ chartError' = 0
         /\ chartLoads' = Append(chartLoads, ChartLoad(pair, market, iv, "pending"))
         /\ UNCHANGED chartData

\* handleCNCardClick / handleUSSearchCardClick: a card is clicked; the effect
\* runs when a dependency changed.
HandleCardClick(market, symbol) ==
    /\ Len(chartLoads) < MaxChartLoads
    /\ <<symbol, market>> # <<selectedPair, chartMarket>>
    /\ selectedPair' = symbol
    /\ chartMarket' = market
    /\ UNCHANGED chartInterval
    /\ ChartEffect(symbol, market, chartInterval)
    /\ UNCHANGED <<coreVars, symbolVars, configVars, timerVars, streamVars>>

\* onIntervalChange={setChartInterval}: the modal, open on a pair, changes the interval.
SetChartInterval(iv) ==
    /\ Len(chartLoads) < MaxChartLoads
    /\ selectedPair # "null"
    /\ iv # chartInterval
    /\ chartInterval' = iv
    /\ UNCHANGED <<selectedPair, chartMarket>>
    /\ ChartEffect(selectedPair, chartMarket, iv)
    /\ UNCHANGED <<coreVars, symbolVars, configVars, timerVars, streamVars>>

\* closeModal
CloseModal ==
    /\ selectedPair # "null"
    /\ selectedPair' = "null"
    /\ chartMarket' = "none"
    /\ UNCHANGED chartInterval
    /\ ChartEffect("null", "none", chartInterval)
    /\ UNCHANGED <<coreVars, symbolVars, configVars, timerVars, streamVars>>

\* The fetch a loadChartData call awaits settles: the try block sets the
\* data, the catch block the error and no data, and finally clears the flag.
ChartLoadSettles(load, ok) ==
    /\ load \in 1..Len(chartLoads)
    /\ chartLoads[load].state = "pending"
    /\ chartLoads' = [chartLoads EXCEPT ![load].state = IF ok THEN "resolved" ELSE "rejected"]
    /\ chartData' = IF ok THEN load ELSE 0
    /\ chartError' = IF ok THEN chartError ELSE load
    /\ chartLoading' = FALSE
    /\ UNCHANGED <<selectedPair, chartMarket, chartInterval>>
    /\ UNCHANGED <<coreVars, symbolVars, configVars, timerVars, streamVars>>

NextHome ==
    \/ \E market \in {"cn", "us"} : \E symbol \in ChartPairs : HandleCardClick(market, symbol)
    \/ \E iv \in ChartIntervals : SetChartInterval(iv)
    \/ CloseModal
    \/ \E load \in 1..MaxChartLoads : \E ok \in BOOLEAN : ChartLoadSettles(load, ok)

SpecHome == InitHome /\ [][NextHome]_vars

\* ---------------------------------------------- Home: the auto-refresh timer
\* An instant is a number of half minutes since a midnight: 2 * m is the
\* start of minute m, with zero seconds and milliseconds, and 2 * m + 1
\* stands for every later instant of that minute.

\* The clock at mount lies in the StartWindow half minutes before the second
\* midnight, and the run ends RunAfter half minutes after it.
StartWindow == 150

RunAfter == 130

\* The longest time between the clock readings of two timer callbacks in
\* normal running, and the time a suspended page takes for one.
MaxTickDelay == 2

SleepDelay == 125

\* Date.prototype.getMinutes / getHours, and the day of the date.
GetMinutes(t) == (t \div 2) % 60

GetHours(t) == (t \div 120) % 24

GetDay(t) == t \div 2880

\* The date of the given fields with zero seconds and milliseconds; an hour
\* of 24 carries into the day as Date's setters make it.
MakeDate(day, hours, minutes) == ((day * 24 + hours) * 60 + minutes) * 2

\* Mutant: minutes <= 30.
GetNextRefreshTimeInclusive(now) ==
    IF GetMinutes(now) <= 30
    THEN MakeDate(GetDay(now), GetHours(now), 30)
    ELSE MakeDate(GetDay(now), GetHours(now) + 1, 0)

\* getNextRefreshTime, with now for new Date().
GetNextRefreshTime(now) ==
    IF GetMinutes(now) < 30
    THEN MakeDate(GetDay(now), GetHours(now), 30)
    ELSE MakeDate(GetDay(now), GetHours(now) + 1, 0)

Midnight == MakeDate(1, 0, 0)

\* useState<Date>(getNextRefreshTime) at mount.
InitTimer ==
    /\ clockNow \in (Midnight - StartWindow)..(Midnight - 1)
    /\ nextRefreshTime = GetNextRefreshTime(clockNow)
    /\ lastAutoRefresh = NoRefresh
    /\ autoRefreshes = 0
    /\ lastManualRefresh = NoManualRefresh
    /\ CoreIdle
    /\ SymbolIdle
    /\ ConfigIdle
    /\ ChartIdle
    /\ StreamIdle

\* One callback of the setInterval timer, delay after the last clock
\* reading: it reads the clock, and when nextRefreshTime is reached it
\* refreshes and sets nextRefreshTime from a clock read lag later; the effect
\* then replaces the timer by one that sees the new nextRefreshTime.
TimerTick(delay, lag) ==
    /\ clockNow + delay + lag <= Midnight + RunAfter
    /\ LET now == clockNow + delay
       IN  IF now >= nextRefreshTime
           THEN /\ clockNow' = now + lag
                /\ nextRefreshTime' = GetNextRefreshTime(now + lag)
                /\ lastAutoRefresh' = [boundary |-> nextRefreshTime, at |-> now,
                                      read |-> now + lag,
                                      next |-> GetNextRefreshTime(now + lag)]
                /\ autoRefreshes' = autoRefreshes + 1
           ELSE /\ clockNow' = now
                /\ UNCHANGED <<nextRefreshTime, lastAutoRefresh, autoRefreshes>>
    /\ UNCHANGED lastManualRefresh
    /\ UNCHANGED <<coreVars, symbolVars, configVars, chartVars, streamVars>>

\* handleManualRefresh: the searches are run again, the schedule is not touched.
HandleManualRefresh ==
    /\ lastManualRefresh = NoManualRefresh
    /\ UNCHANGED <<clockNow, nextRefreshTime, lastAutoRefresh, autoRefreshes>>
    /\ lastManualRefresh' = [before |-> nextRefreshTime, after |-> nextRefreshTime']
    /\ UNCHANGED <<coreVars, symbolVars, configVars, chartVars, streamVars>>

NextTimer ==
    \/ \E delay \in (1..MaxTickDelay) \cup {SleepDelay} : \E lag \in 0..1 : TimerTick(delay, lag)
    \/ HandleManualRefresh

SpecTimer == InitTimer /\ [][NextTimer]_vars

\* ------------------------------------------- analyzeKLineWithAIStream
\* The reader.read() calls that yield a value, and the lines of one value.
MaxReads == 3

MaxLines == 2

\* The contents a delta carries; the empty one stands for a missing or
\* empty content, which the code takes alike.
StreamContents == {<<"a">>, <<"b">>, <<>>}

\* A line of a decoded value: whether it starts with 'data: ', and what the
\* rest is after trim(): '[DONE]', JSON that parses with the content of
\* choices[0].delta, or text JSON.parse throws on.
StreamLine(data, payload, content) ==
    [data |-> data, payload |-> payload, content |-> content]

StreamLines ==
    {StreamLine(d, "done", <<>>) : d \in BOOLEAN}
        \cup {StreamLine(TRUE, "json", c) : c \in StreamContents}
        \cup {StreamLine(FALSE, "json", <<"a">>), StreamLine(TRUE, "text", <<"a">>)}

RECURSIVE LinesUpTo(_)
LinesUpTo(n) ==
    IF n = 0
    THEN {<<>>}
    ELSE LinesUpTo(n - 1)
             \cup {Append(ls, l) : ls \in {x \in LinesUpTo(n - 1) : Len(x) = n - 1},
                                   l \in StreamLines}

\* What a reader.read() settles with.
ReadResult(kind, lines) == [kind |-> kind, lines |-> lines]

ReadResults ==
    {ReadResult("done", <<>>), ReadResult("rejected", <<>>)}
        \cup {ReadResult("value", ls) : ls \in LinesUpTo(MaxLines)}

\* What the fetch settles with: a rejection, a response that is not ok (whose
\* text() resolves or rejects), an ok response without a body, an ok
\* response with one.
StreamFetchOutcomes == {"rejected", "notOk", "notOkTextRejected", "noBody", "ok"}

\* The calls of the three callbacks, with their arguments.
OnChunk(chunk, fullText) ==
    [callback |-> "onChunk", chunk |-> chunk, fullText |-> fullText, error |-> ""]

OnComplete(fullText) ==
    [callback |-> "onComplete", chunk |-> <<>>, fullText |-> fullText, error |-> ""]

OnError(error) ==
    [callback |-> "onError", chunk |-> <<>>, fullText |-> <<>>, error |-> error]

\* Mutant: a '[DONE]' line completes and the loop goes on.
RECURSIVE ProcessLinesPastDone(_, _, _)
ProcessLinesPastDone(lines, fullText, log) ==
    IF lines = <<>>
    THEN [fullText |-> fullText, log |-> log, returned |-> FALSE]
    ELSE LET line == Head(lines)
         IN  IF ~line.data
             THEN ProcessLinesPastDone(Tail(lines), fullText, log)
             ELSE IF line.payload = "done"
             THEN ProcessLinesPastDone(Tail(lines), fullText,
                                       Append(log, OnComplete(fullText)))
             ELSE IF line.payload = "json" /\ line.content # <<>>
             THEN ProcessLinesPastDone(Tail(lines), fullText \o line.content,
                                       Append(log, OnChunk(line.content,
                                                           fullText \o line.content)))
             ELSE ProcessLinesPastDone(Tail(lines), fullText, log)

\* The for loop over the lines of one value: the fullText and the callbacks
\* after it, and whether it returned from the function.
RECURSIVE ProcessLines(_, _, _)
ProcessLines(lines, fullText, log) ==
    IF lines = <<>>
    THEN [fullText |-> fullText, log |-> log, returned |-> FALSE]
    ELSE LET line == Head(lines)
         IN  IF ~line.data
             THEN ProcessLines(Tail(lines), fullText, log)
             ELSE IF line.payload = "done"
             THEN [fullText |-> fullText,
                   log |-> Append(log, OnComplete(fullText)),
                   returned |-> TRUE]
             ELSE IF line.payload = "json" /\ line.content # <<>>
             THEN ProcessLines(Tail(lines), fullText \o line.content,
                               Append(log, OnChunk(line.content,
                                                   fullText \o line.content)))
             ELSE ProcessLines(Tail(lines), fullText, log)

InitStream ==
    /\ StreamIdle
    /\ CoreIdle
    /\ SymbolIdle
    /\ ConfigIdle
    /\ ChartIdle
    /\ TimerIdle

\* The call, up to the fetch: no data is an error at once.
AnalyzeKLineWithAIStream(dataLength) ==
    /\ streamPc = "idle"
    /\ IF dataLength = 0
       THEN /\ streamLog' = Append(streamLog, OnError("noData"))
            /\ streamPc' = "returned"
       ELSE /\ streamPc' = "fetching"
            /\ UNCHANGED streamLog
    /\ UNCHANGED <<streamFullText, streamReads>>
    /\ UNCHANGED <<coreVars, symbolVars, configVars, chartVars, timerVars>>

\* The fetch settles, up to the first reader.read().
StreamFetchSettles(outcome) ==
    /\ streamPc = "fetching"
    /\ IF outcome = "ok"
       THEN /\ streamPc' = "reading"
            /\ streamFullText' = <<>>
            /\ UNCHANGED streamLog
       ELSE /\ streamPc' = "returned"
            /\ streamLog' = Append(streamLog,
                                   OnError(CASE outcome = "notOk" -> "apiFailed"
                                             [] outcome = "noBody" -> "noStream"
                                             [] OTHER -> "thrown"))
            /\ UNCHANGED streamFullText
    /\ UNCHANGED streamReads
    /\ UNCHANGED <<coreVars, symbolVars, configVars, chartVars, timerVars>>

\* A reader.read() settles, up to the next one or the return.
ReaderReadSettles(result) ==
    /\ streamPc = "reading"
    /\ result.kind = "value" => streamReads < MaxReads
    /\ streamReads' = streamReads + 1
    /\ CASE result.kind = "rejected" ->
                /\ streamLog' = Append(streamLog, OnError("thrown"))
                /\ streamPc' = "returned"
                /\ UNCHANGED streamFullText
         [] result.kind = "done" ->
                /\ streamLog' = Append(streamLog,
                                       IF streamFullText # <<>>
                                       THEN OnComplete(streamFullText)
                                       ELSE OnError("empty"))
                /\ streamPc' = "returned"
                /\ UNCHANGED streamFullText
         [] OTHER ->
                LET after == ProcessLines(result.lines, streamFullText, streamLog)
                IN  /\ streamFullText' = after.fullText
                    /\ streamLog' = after.log
                    /\ streamPc' = IF after.returned THEN "returned" ELSE "reading"
    /\ UNCHANGED <<coreVars, symbolVars, configVars, chartVars, timerVars>>

NextStream ==
    \/ \E dataLength \in 0..1 : AnalyzeKLineWithAIStream(dataLength)
    \/ \E outcome \in StreamFetchOutcomes : StreamFetchSettles(outcome)
    \/ \E result \in ReadResults : ReaderReadSettles(result)

SpecStream == InitStream /\ [][NextStream]_vars

\* ------------------------------------------------- vocabulary of the claims
One == <<1, 1>>

Timestamps(data) == {data[i].timestamp : i \in 1..Len(data)}

TimestampSeq(data) == [i \in 1..Len(data) |-> data[i].timestamp]

StrictlyIncreasing(data) ==
    \A i \in 1..Len(data) - 1 : data[i].timestamp < data[i + 1].timestamp

DistinctTimestamps(data) ==
    \A i, j \in 1..Len(data) : data[i].timestamp = data[j].timestamp => i = j

PositivePrices(data) ==
    \A i \in 1..Len(data) :
        data[i].open > 0 /\ data[i].high > 0 /\ data[i].low > 0 /\ data[i].close > 0

\* The bar invariant of the data model: low <= min(open, close), high >= max(open, close).
BracketedBars(data) ==
    \A i \in 1..Len(data) :
        /\ data[i].low <= data[i].open /\ data[i].low <= data[i].close
        /\ data[i].high >= data[i].open /\ data[i].high >= data[i].close

\* A Series as the data model defines it.
IsSeries(data) == StrictlyIncreasing(data) /\ PositivePrices(data)

\* Numerator positions at or after the common start.
PostFilter == {i \in 1..Len(numeratorData) :
                  numeratorData[i].timestamp >= commonStartTimestamp}

\* Numerator positions at or after the common start whose timestamp the
\* denominator has.
Matched == {i \in PostFilter :
               numeratorData[i].timestamp \in Timestamps(denominatorData)}

\* The numerator position of the k-th matched bar, in numerator order.
NthMatched(k) == CHOOSE i \in Matched : Cardinality({j \in Matched : j < i}) = k - 1

\* The denominator bar a timestamp looks up: the last one carrying it.
DenomAt(t) ==
    denominatorData[CHOOSE j \in 1..Len(denominatorData) :
                        /\ denominatorData[j].timestamp = t
                        /\ \A m \in (j + 1)..Len(denominatorData) :
                              denominatorData[m].timestamp # t]

Done == pc = "done"

\* v is the greatest of cands as Math.max reports it: NaN when a candidate is
\* NaN, else a candidate that no candidate exceeds.
IsMaxOf(v, cands) ==
    IF NaN \in cands THEN v = NaN
    ELSE v \in cands /\ \A c \in cands : ~Less(v, c)

IsMinOf(v, cands) ==
    IF NaN \in cands THEN v = NaN
    ELSE v \in cands /\ \A c \in cands : ~Less(c, v)

\* ------------------------------------------------------------------ claims

\* C1: reconcile emits exactly one bar for each numerator bar whose timestamp
\* is at or after the common start and is a denominator timestamp, and no bar
\* for any other timestamp; the scenario [1,2,3]/[2,3,4] with closes
\* [10,20,30]/[5,5,5] gives timestamps [2,3] with closes [4,6].
C1_InnerJoinOnTimestamp ==
    Done =>
        /\ \A t \in Timestamps(numeratorData) \cup Timestamps(denominatorData)
                    \cup Timestamps(ratioData) :
              Cardinality({k \in 1..Len(ratioData) : ratioData[k].timestamp = t})
                = Cardinality({i \in Matched : numeratorData[i].timestamp = t})
        /\ (numeratorData = ScenarioNumerator /\ denominatorData = ScenarioDenominator)
              => /\ TimestampSeq(ratioData) = <<2, 3>>
                 /\ [k \in 1..Len(ratioData) |-> ratioData[k].close] = <<<<4, 1>>, <<6, 1>>>>

C1_Witness ==
    /\ Done
    /\ numeratorData = ScenarioNumerator
    /\ denominatorData = ScenarioDenominator
    /\ Len(ratioData) = 2

\* C2 as stated: for every Series S, reconcile(S, S) yields open = high = low
\* = close = 1 and the volume of S for every retained bar.
C2_SelfRatioAllOnes ==
    (Done /\ numeratorData = denominatorData
          /\ IsSeries(numeratorData) /\ BracketedBars(numeratorData)) =>
        \A k \in 1..Len(ratioData) :
            /\ ratioData[k].open = One /\ ratioData[k].high = One
            /\ ratioData[k].low = One /\ ratioData[k].close = One
            /\ \E i \in 1..Len(numeratorData) :
                  /\ numeratorData[i].timestamp = ratioData[k].timestamp
                  /\ numeratorData[i].volume = ratioData[k].volume

\* C2 amended: for every S with positive prices and distinct timestamps,
\* reconcile(S, S) yields open = close = 1, high = max(1, S.high / S.low),
\* low = min(1, S.low / S.high) and the volume of S for every retained bar.
C2_SelfRatioOpenCloseOne ==
    (Done /\ numeratorData = denominatorData
          /\ DistinctTimestamps(numeratorData) /\ PositivePrices(numeratorData)) =>
        /\ Len(ratioData) = Cardinality(Matched)
        /\ \A k \in 1..Len(ratioData) :
              LET s == numeratorData[NthMatched(k)]
              IN  /\ ratioData[k].timestamp = s.timestamp
                  /\ ratioData[k].open = One
                  /\ ratioData[k].close = One
                  /\ ratioData[k].high =
                        IF s.high > s.low THEN Divide(s.high, s.low) ELSE One
                  /\ ratioData[k].low =
                        IF s.low < s.high THEN Divide(s.low, s.high) ELSE One
                  /\ ratioData[k].volume = s.volume

C2_Witness ==
    /\ Done
    /\ numeratorData = denominatorData
    /\ IsSeries(numeratorData) /\ BracketedBars(numeratorData)
    /\ Len(ratioData) = 1
    /\ ratioData[1].open = One
    /\ ratioData[1].high = <<2, 1>>
    /\ ratioData[1].low = <<1, 2>>

\* C4 as stated: the output is shorter than the post-filter numerator by the
\* number of timestamps present in the numerator but absent in the denominator.
C4_LengthMinusAllAbsent ==
    (Done /\ IsSeries(numeratorData) /\ IsSeries(denominatorData)) =>
        /\ Len(ratioData) <= Cardinality(PostFilter)
        /\ Cardinality(PostFilter) - Len(ratioData)
             = Cardinality(Timestamps(numeratorData) \ Timestamps(denominatorData))

\* C4 amended: the output is at most as long as the post-filter numerator and
\* shorter than it by exactly the number of numerator bars at or after the
\* common start whose timestamp is absent in the denominator.
C4_LengthMinusPostFilterAbsent ==
    Done =>
        /\ Len(ratioData) <= Cardinality(PostFilter)
        /\ Cardinality(PostFilter) - Len(ratioData)
             = Cardinality({i \in PostFilter :
                   numeratorData[i].timestamp \notin Timestamps(denominatorData)})

C4_Witness ==
    /\ Done
    /\ Len(numeratorData) = 2
    /\ Cardinality(PostFilter) = 2
    /\ Len(ratioData) = 1

\* C5 as stated: the common start is max(numerator[0].timestamp,
\* denominator[0].timestamp) when both series are non-empty and 0 whenever at
\* least one of them is empty.
C5_CommonStartZeroIfAnyEmpty ==
    (Done /\ IsSeries(numeratorData) /\ IsSeries(denominatorData)) =>
        commonStartTimestamp =
            IF numeratorData # <<>> /\ denominatorData # <<>>
            THEN IF numeratorData[1].timestamp > denominatorData[1].timestamp
                 THEN numeratorData[1].timestamp ELSE denominatorData[1].timestamp
            ELSE 0

\* C5 amended: the common start is max(numerator[0].timestamp,
\* denominator[0].timestamp) when both series are non-empty, max(0, first
\* timestamp of the non-empty series) when exactly one is empty, and 0 when
\* both are empty.
C5_CommonStartEmptyCountsAsZero ==
    Done =>
        /\ (numeratorData # <<>> /\ denominatorData # <<>>) =>
              /\ commonStartTimestamp \in
                    {numeratorData[1].timestamp, denominatorData[1].timestamp}
              /\ commonStartTimestamp >= numeratorData[1].timestamp
              /\ commonStartTimestamp >= denominatorData[1].timestamp
        /\ (numeratorData = <<>> /\ denominatorData # <<>>) =>
              /\ commonStartTimestamp \in {0, denominatorData[1].timestamp}
              /\ commonStartTimestamp >= 0
              /\ commonStartTimestamp >= denominatorData[1].timestamp
        /\ (numeratorData # <<>> /\ denominatorData = <<>>) =>
              /\ commonStartTimestamp \in {0, numeratorData[1].timestamp}
              /\ commonStartTimestamp >= 0
              /\ commonStartTimestamp >= numeratorData[1].timestamp
        /\ (numeratorData = <<>> /\ denominatorData = <<>>) => commonStartTimestamp = 0

C5_Witness ==
    /\ Done
    /\ numeratorData = <<>>
    /\ denominatorData # <<>>
    /\ commonStartTimestamp = denominatorData[1].timestamp
    /\ commonStartTimestamp > 0

\* C6: for every matched pair (n, d) the emitted bar has
\* high = max(n.high/d.low, n.high/d.high, ratioOpen, ratioClose) and
\* low = min(n.low/d.high, n.low/d.low, ratioOpen, ratioClose).
C6_HighLowFormula ==
    Done =>
        /\ Len(ratioData) = Cardinality(Matched)
        /\ \A k \in 1..Len(ratioData) :
              LET n == numeratorData[NthMatched(k)]
                  d == DenomAt(n.timestamp)
                  ro == Divide(n.open, d.open)
                  rc == Divide(n.close, d.close)
              IN  /\ IsMaxOf(ratioData[k].high,
                             {Divide(n.high, d.low), Divide(n.high, d.high), ro, rc})
                  /\ IsMinOf(ratioData[k].low,
                             {Divide(n.low, d.high), Divide(n.low, d.low), ro, rc})

\* The clamp decides: the open ratio exceeds both high candidates and the
\* close ratio is below both low candidates.
C6_Witness ==
    /\ Done
    /\ Len(ratioData) = 1
    /\ ratioData[1].high = ratioData[1].open
    /\ ratioData[1].low = ratioData[1].close
    /\ Less(Divide(numeratorData[1].high, denominatorData[1].low), ratioData[1].open)
    /\ Less(ratioData[1].close, Divide(numeratorData[1].low, denominatorData[1].high))

\* C7: for every matched pair (n, d) the emitted bar has open = n.open/d.open,
\* close = n.close/d.close and timestamp n.timestamp.
C7_OpenCloseTimestamp ==
    Done =>
        /\ Len(ratioData) = Cardinality(Matched)
        /\ \A k \in 1..Len(ratioData) :
              LET n == numeratorData[NthMatched(k)]
                  d == DenomAt(n.timestamp)
              IN  /\ ratioData[k].open = Divide(n.open, d.open)
                  /\ ratioData[k].close = Divide(n.close, d.close)
                  /\ ratioData[k].timestamp = n.timestamp

C7_Witness ==
    /\ Done
    /\ Len(ratioData) = 1
    /\ numeratorData[1].open = 1 /\ denominatorData[1].open = 2
    /\ numeratorData[1].close = 2 /\ denominatorData[1].close = 1
    /\ ratioData[1].open = <<1, 2>>
    /\ ratioData[1].close = <<2, 1>>

\* A series with every volume replaced by v.
WithVolume(data, v) == [i \in 1..Len(data) |-> [data[i] EXCEPT !.volume = v]]

\* C8: every emitted bar carries exactly the volume of the numerator bar it
\* was made from, and the denominator's volumes do not influence the output:
\* it is unchanged when every denominator volume is replaced by a volume no
\* generated bar has.
C8_VolumeFromNumerator ==
    Done =>
        /\ Len(ratioData) = Cardinality(Matched)
        /\ \A k \in 1..Len(ratioData) :
              ratioData[k].volume = numeratorData[NthMatched(k)].volume
        /\ ratioData = CalculateRatioKLine(numeratorData,
                                           WithVolume(denominatorData, MaxVolume + 1))

C8_Witness ==
    /\ Done
    /\ Len(ratioData) = 1
    /\ numeratorData[1].volume = 1
    /\ denominatorData[1].volume = 0
    /\ ratioData[1].volume = 1

\* C9: for a numerator with strictly increasing timestamps, the output
\* timestamps are a strictly increasing subsequence of the numerator's.
C9_OrderPreserving ==
    (Done /\ StrictlyIncreasing(numeratorData)) =>
        /\ StrictlyIncreasing(ratioData)
        /\ Timestamps(ratioData) \subseteq Timestamps(numeratorData)
        /\ Len(ratioData) <= Len(numeratorData)

C9_Witness ==
    /\ Done
    /\ StrictlyIncreasing(numeratorData)
    /\ Len(numeratorData) >= 2
    /\ Len(ratioData) = 2
    /\ ratioData[1].timestamp < ratioData[2].timestamp

\* reconcile with the arguments exchanged.
Reverse == CalculateRatioKLine(denominatorData, numeratorData)

\* C10: for Series A and B and every timestamp in the outputs of both
\* reconcile(A, B) and reconcile(B, A), close(A,B) * close(B,A) = 1 and
\* open(A,B) * open(B,A) = 1.
C10_ReciprocalOpenClose ==
    (Done /\ IsSeries(numeratorData) /\ IsSeries(denominatorData)) =>
        \A i \in 1..Len(ratioData) : \A j \in 1..Len(Reverse) :
            ratioData[i].timestamp = Reverse[j].timestamp =>
                /\ Times(ratioData[i].close, Reverse[j].close) = One
                /\ Times(ratioData[i].open, Reverse[j].open) = One

\* A shared timestamp whose closes are reciprocal and different from 1, while
\* the highs are not reciprocal.
C10_Witness ==
    /\ Done
    /\ IsSeries(numeratorData) /\ IsSeries(denominatorData)
    /\ Len(ratioData) = 1 /\ Len(Reverse) = 1
    /\ ratioData[1].close # One
    /\ Times(ratioData[1].close, Reverse[1].close) = One
    /\ Times(ratioData[1].high, Reverse[1].high) # One

\* A quotient that is neither NaN nor an infinity.
Finite(x) == x[2] # 0

\* One of the bar's four prices is zero.
HasZeroPrice(bar) == bar.open = 0 \/ bar.high = 0 \/ bar.low = 0 \/ bar.close = 0

C23_OutputBracketed ==
    (Done /\ PositivePrices(numeratorData) /\ PositivePrices(denominatorData)) =>
        \A k \in 1..Len(ratioData) :
            /\ Finite(ratioData[k].open) /\ Finite(ratioData[k].close)
            /\ Finite(ratioData[k].high) /\ Finite(ratioData[k].low)
            /\ ~Less(ratioData[k].open, ratioData[k].low)
            /\ ~Less(ratioData[k].close, ratioData[k].low)
            /\ ~Less(ratioData[k].high, ratioData[k].open)
            /\ ~Less(ratioData[k].high, ratioData[k].close)
            /\ ~Less(ratioData[k].high, ratioData[k].low)

C23_Witness ==
    /\ Done
    /\ PositivePrices(numeratorData) /\ PositivePrices(denominatorData)
    /\ ~BracketedBars(numeratorData)
    /\ Len(ratioData) = 1
    /\ Less(Divide(numeratorData[1].low, denominatorData[1].low), ratioData[1].close)
    /\ Less(ratioData[1].open, Divide(numeratorData[1].low, denominatorData[1].high))
    /\ ratioData[1].low = ratioData[1].open

\* Numerator positions whose timestamp the denominator has: the inner join.
Joined == {i \in 1..Len(numeratorData) :
              numeratorData[i].timestamp \in Timestamps(denominatorData)}

\* C26: for inputs of strictly increasing timestamps the common start removes
\* no bar the denominator matches: the output is the inner join on timestamp
\* in numerator order, and exchanging the arguments gives the same sequence
\* of timestamps.
C26_FilterRemovesNoMatch ==
    (Done /\ StrictlyIncreasing(numeratorData) /\ StrictlyIncreasing(denominatorData)) =>
        /\ Matched = Joined
        /\ Len(ratioData) = Cardinality(Joined)
        /\ \A k \in 1..Len(ratioData) :
              ratioData[k] = RatioBar(numeratorData[NthMatched(k)],
                                      DenomAt(numeratorData[NthMatched(k)].timestamp))
        /\ TimestampSeq(ratioData) = TimestampSeq(Reverse)

C26_Witness ==
    /\ Done
    /\ StrictlyIncreasing(numeratorData) /\ StrictlyIncreasing(denominatorData)
    /\ Len(numeratorData) = 2
    /\ Len(denominatorData) = 1
    /\ numeratorData[1].timestamp < commonStartTimestamp
    /\ Len(ratioData) = 1
    /\ TimestampSeq(Reverse) = TimestampSeq(ratioData)

\* ------------------------------------------------------ claims on loadRatio

\* A side of the pair symbol, split on '/', is missing or empty once trimmed.
BlankSide(s) ==
    \/ Denominator(s) = Undefined
    \/ Trim(Numerator(s)) = <<>>
    \/ Trim(Denominator(s)) = <<>>

\* C3: loadRatio fails with InvalidPairFailure whenever either side of the
\* pair identifier, split on '/', is empty after trimming whitespace.
C3_BlankSideRejected ==
    (loadPc \notin {"idle", "called"} /\ BlankSide(pairSymbol)) =>
        /\ loadPc = "rejected"
        /\ loadError = InvalidPairFailure(pairSymbol)
        /\ requests = <<>>

\* fetchRatioKLine has run its synchronous part.
Started == loadPc \notin {"idle", "called"}

\* The pair symbol holds no '/'.
NoSlash(s) == \A i \in 1..Len(s) : s[i] # "/"

\* C12: the range of every request is looked up from its interval alone:
\* '1d' gives '2y', '1wk' gives '10y', '1mo' gives 'max', and every other
\* interval token gives '2y'.
C12_RangeLookup ==
    \A i \in 1..Len(requests) :
        /\ requests[i].interval = interval
        /\ (interval = "1d") => (requests[i].range = "2y")
        /\ (interval = "1wk") => (requests[i].range = "10y")
        /\ (interval = "1mo") => (requests[i].range = "max")
        /\ (interval \notin {"1d", "1wk", "1mo"}) => (requests[i].range = "2y")

C12_Witness ==
    /\ Len(requests) = 2
    /\ interval = "1D"
    /\ requests[1].range = "2y"
    /\ requests[2].range = "2y"

\* C14: a pair symbol rejected as invalid is rejected with no fetch started,
\* and a pair symbol with no '/' or with an empty numerator is rejected so.
C14_InvalidBeforeAnyFetch ==
    /\ (loadError.kind = "InvalidPair") =>
           /\ loadPc = "rejected"
           /\ requests = <<>>
           /\ settleOrder = <<>>
           /\ \A leg \in Legs : legState[leg] = "none"
    /\ (Started /\ (NoSlash(pairSymbol) \/ Numerator(pairSymbol) = <<>>)) =>
           /\ loadError = InvalidPairFailure(pairSymbol)
           /\ requests = <<>>

C14_Witness ==
    /\ pairSymbol = <<"/", "A">>
    /\ loadPc = "rejected"
    /\ loadError = InvalidPairFailure(pairSymbol)
    /\ requests = <<>>

\* The pair symbol splits on '/' into exactly two non-empty symbols.
ExactForm(s) ==
    /\ Len(Split(s)) = 2
    /\ Split(s)[1] # <<>>
    /\ Split(s)[2] # <<>>

\* C15: a pair symbol that does not split on '/' into exactly two non-empty
\* symbols is rejected with InvalidPairFailure and starts no fetch.
C15_ExactFormOnly ==
    (Started /\ ~ExactForm(pairSymbol)) =>
        /\ loadPc = "rejected"
        /\ loadError = InvalidPairFailure(pairSymbol)
        /\ requests = <<>>

\* C16: for a valid pair both fetches are started together, each one
\* outstanding can settle whatever the state of the other, and the load
\* resolves only once both are fulfilled.
C16_ConcurrentLegs ==
    /\ (Started /\ loadError.kind # "InvalidPair") =>
           /\ Len(requests) = 2
           /\ \A leg \in Legs : legState[leg] # "none"
           /\ (settleOrder = <<>>) => (\A leg \in Legs : legState[leg] = "pending")
    /\ \A leg \in Legs :
           (legState[leg] = "pending") =>
               ENABLED (\E answer \in UpstreamAnswers : LegSettles(leg, answer))
    /\ (loadPc = "resolved") =>
           /\ \A leg \in Legs : legState[leg] = "fulfilled"
           /\ Len(settleOrder) = 2

C16_Witness ==
    /\ loadPc = "awaiting"
    /\ legState[2] = "fulfilled"
    /\ legState[1] = "pending"
    /\ settleOrder = <<2>>

\* The leg whose rejection was observed first.
FirstRejected ==
    settleOrder[CHOOSE i \in 1..Len(settleOrder) :
                    /\ legState[settleOrder[i]] = "rejected"
                    /\ \A j \in 1..(i - 1) : legState[settleOrder[j]] # "rejected"]

\* C17: once a leg's fetch is rejected the load is rejected with the error of
\* the leg rejected first, as that leg threw it, and the reconciler has not
\* run and no ratio data exists.
C17_FirstRejectionPropagates ==
    (\E leg \in Legs : legState[leg] = "rejected") =>
        /\ loadPc = "rejected"
        /\ loadError = legError[FirstRejected]
        /\ loadError \in {FetchFailure(requests[FirstRejected].symbol),
                          NoDataFailure(requests[FirstRejected].symbol)}
        /\ pc = "ready"
        /\ ratioData = <<>>

C17_Witness ==
    /\ \A leg \in Legs : legState[leg] = "rejected"
    /\ settleOrder = <<2, 1>>
    /\ loadError = legError[2]
    /\ loadError # legError[1]

\* C18: a resolved load asked for the trimmed numerator and denominator
\* symbols with the given interval and the range of the interval's policy,
\* not the caller's range, and returns the reconciliation of the two Series
\* it was answered with.
C18_ResolvesToReconcile ==
    (loadPc = "resolved") =>
        /\ requests[1] = [symbol |-> Trim(Numerator(pairSymbol)),
                          range |-> GetAppropriateRange(interval),
                          interval |-> interval]
        /\ requests[2] = [symbol |-> Trim(Denominator(pairSymbol)),
                          range |-> GetAppropriateRange(interval),
                          interval |-> interval]
        /\ numeratorData = legData[1]
        /\ denominatorData = legData[2]
        /\ pc = "done"
        /\ ratioData = CalculateRatioKLine(legData[1], legData[2])

C18_Witness ==
    /\ loadPc = "resolved"
    /\ pairSymbol = <<"A", " ", "/", "B">>
    /\ requests[1].symbol = <<"A">>
    /\ callerRange = "1y"
    /\ interval = "1mo"
    /\ requests[1].range = "max"
    /\ Len(legData[1]) = 2
    /\ Len(ratioData) = 1

\* --------------------------------------------- claims on fetchHistoricalData
\* The raw indices at which open, high, low and close are all numbers.
KeptIndices(result) ==
    {i \in 1..Len(result.timestamp) :
        /\ result.open[i].kind = "number"
        /\ result.high[i].kind = "number"
        /\ result.low[i].kind = "number"
        /\ result.close[i].kind = "number"}

\* The k-th kept index, in raw index order.
NthKept(result, k) ==
    CHOOSE i \in KeptIndices(result) :
        Cardinality({j \in KeptIndices(result) : j < i}) = k - 1

\* C11: the returned Series has one bar for each raw index at which open,
\* high, low and close are all present, in raw index order, with the raw
\* timestamp times 1000 and the raw prices, and no bar for any other index.
C11_NullIndicesDropped ==
    (fetchPc = "returned") =>
        /\ Len(klineData) = Cardinality(KeptIndices(response.result))
        /\ \A k \in 1..Len(klineData) :
               LET i == NthKept(response.result, k)
               IN  /\ klineData[k].timestamp = response.result.timestamp[i] * 1000
                   /\ klineData[k].open = response.result.open[i].val
                   /\ klineData[k].high = response.result.high[i].val
                   /\ klineData[k].low = response.result.low[i].val
                   /\ klineData[k].close = response.result.close[i].val

C11_Witness ==
    /\ fetchPc = "returned"
    /\ response.result = Columns(ScenarioRows)
    /\ Len(klineData) = 2
    /\ klineData[1].timestamp = 100000
    /\ klineData[2].timestamp = 300000
    /\ klineData[2].open = 6

\* C27: whether an index is kept depends on its open, high, low and close
\* entries alone: an index at which the four are numbers, zero included, is
\* kept whatever its volume entry, a null or missing volume there becomes
\* volume 0, a number stays itself, and the output has as many bars as there
\* are such indices.
C27_RetentionIgnoresVolume ==
    (fetchPc = "returned") =>
        /\ Len(klineData) = Cardinality(KeptIndices(response.result))
        /\ \A k \in 1..Len(klineData) :
               LET entry == response.result.volume[NthKept(response.result, k)]
               IN  klineData[k].volume = IF entry.kind = "number" THEN entry.val ELSE 0

C27_Witness ==
    /\ fetchPc = "returned"
    /\ Len(response.result.timestamp) = 1
    /\ response.result.volume[1] = Absent
    /\ response.result.open[1] = Num(0)
    /\ response.result.close[1] = Num(0)
    /\ Len(klineData) = 1
    /\ klineData[1].open = 0
    /\ klineData[1].volume = 0

\* fetchHistoricalData has returned or thrown.
FetchSettled == fetchPc \in {"returned", "threw"}

C20_NeverThrows ==
    /\ pc \in {"ready", "done"}
    /\ (pc = "done") =>
           /\ Len(calls) = 1
           /\ ~calls[1].threw
           /\ calls[1].result = ratioData
           /\ Len(ratioData) <= Len(numeratorData)

C20_Witness ==
    /\ pc = "done"
    /\ denominatorData = <<>>
    /\ Len(numeratorData) = 2
    /\ ~StrictlyIncreasing(numeratorData)
    /\ ~calls[1].threw
    /\ ratioData = <<>>

\* ---------------------------------------- claims on the exchange mappings
\* The suffix the exchange table gives a six-digit code.
TableSuffix(code) ==
    IF code[1] = "8" \/ (code[1] = "4" /\ code[2] = "3") THEN <<".", "B", "J">>
    ELSE IF code[1] = "6" \/ (code[1] = "5" /\ code[2] = "1") THEN <<".", "S", "S">>
    ELSE IF code[1] \in {"0", "3"} \/ (code[1] = "1" /\ code[2] = "5") THEN <<".", "S", "Z">>
    ELSE <<".", "S", "S">>

\* C30: for a six-digit code convertToCNSymbol returns the code with the
\* suffix of the exchange table, and so does searchStocks as the fullSymbol of
\* its one result; an input without suffix whose digits do not number six
\* makes convertToCNSymbol throw, and no other input does.
C30_MappingsAgree ==
    /\ (IsSixDigits(symbolInput) /\ convertPc # "called") =>
           /\ convertPc = "returned"
           /\ convertResult = symbolInput \o TableSuffix(symbolInput)
    /\ (IsSixDigits(symbolInput) /\ searchPc # "called") =>
           /\ searchPc = "returned"
           /\ searchResult = <<symbolInput \o TableSuffix(symbolInput)>>
    /\ (IsSixDigits(symbolInput) /\ convertPc # "called" /\ searchPc # "called") =>
           searchResult = <<convertResult>>
    /\ (convertPc \in {"returned", "threw"}) =>
           ((convertPc = "threw") <=>
               /\ ~HasSuffix(ToUpperCase(Trim(symbolInput)))
               /\ Cardinality({i \in 1..Len(symbolInput) : IsDigit(symbolInput[i])}) # 6)

C30_Witness ==
    /\ symbolInput = <<"4", "3", "0", "0", "0", "0">>
    /\ convertPc = "returned"
    /\ searchPc = "returned"
    /\ convertResult = <<"4", "3", "0", "0", "0", "0", ".", "B", "J">>
    /\ searchResult = <<convertResult>>

\* ------------------------------------------------ claims on configService
\* The configuration a getAppConfig call resolved to, "null" while it waits.
ResolvedConfig(get) ==
    IF get.load = 0 THEN get.value ELSE configLoads[get.load].value

\* The loads started in an epoch that asked /api/config.
ApiLoadsOf(epoch) ==
    {l \in 1..Len(configLoads) :
        configLoads[l].epoch = epoch /\ configLoads[l].source = "api"}

\* C25: between two clearConfigCache calls the getAppConfig calls cause at
\* most one request and all resolve to the same configuration; a call that
\* finds the cache loaded returns it without a request; getAppConfigSync
\* returns the cache if loaded and DEFAULT_CONFIG otherwise.
C25_OneLoadPerEpoch ==
    /\ \A epoch \in 0..configEpoch : Cardinality(ApiLoadsOf(epoch)) <= 1
    /\ \A i, j \in 1..Len(configGets) :
           (/\ configGets[i].epoch = configGets[j].epoch
            /\ ResolvedConfig(configGets[i]) # "null"
            /\ ResolvedConfig(configGets[j]) # "null") =>
               ResolvedConfig(configGets[i]) = ResolvedConfig(configGets[j])
    /\ (syncResult.cached = "null") => (syncResult.returned = DefaultConfig)
    /\ (syncResult.cached \notin {"null", "none"}) => (syncResult.returned = syncResult.cached)

\* C28: after a clearConfigCache call the cache is empty until a load started
\* after that call has completed, and what it then holds is that load's
\* configuration.
C28_ClearedUntilReloaded ==
    (configEpoch >= 1 /\ cachedConfig # "null") =>
        \E l \in 1..Len(configLoads) :
            /\ configLoads[l].epoch = configEpoch
            /\ configLoads[l].state = "done"
            /\ cachedConfig = configLoads[l].value

\* ------------------------------------------------- claims on the chart loader
\* No loadChartData call is waiting for its fetch.
NoChartLoadInFlight == \A l \in 1..Len(chartLoads) : chartLoads[l].state # "pending"

\* C22: once no chart load is in flight, the chart shows nothing when no pair
\* is selected, and otherwise nothing older than the last load started, which
\* is the one for the selected pair and interval: its data if it succeeded.
C22_StaleChartDiscarded ==
    NoChartLoadInFlight =>
        IF selectedPair = "null" THEN chartData = 0
        ELSE /\ chartData \in {0, Len(chartLoads)}
             /\ chartLoads[Len(chartLoads)].pair = selectedPair
             /\ chartLoads[Len(chartLoads)].interval = chartInterval
             /\ (chartLoads[Len(chartLoads)].state = "resolved") =>
                    (chartData = Len(chartLoads))

\* ------------------------------------------ claims on the auto-refresh timer
\* The start of a minute numbered 0 or 30 within its hour.
IsBoundary(t) == t % 2 = 0 /\ GetMinutes(t) \in {0, 30}

\* t is the earliest boundary strictly after now.
EarliestBoundaryAfter(t, now) ==
    /\ IsBoundary(t)
    /\ t > now
    /\ \A u \in (now + 1)..(t - 1) : ~IsBoundary(u)

\* C24: getNextRefreshTime returns the earliest half-hour boundary strictly
\* after now, at most 30 minutes ahead; the time an auto-refresh sets lies
\* after the clock read for it and after the boundary it fired for, so that
\* no boundary fires twice; a manual refresh leaves nextRefreshTime as it was.
C24_HalfHourSchedule ==
    /\ EarliestBoundaryAfter(GetNextRefreshTime(clockNow), clockNow)
    /\ GetNextRefreshTime(clockNow) - clockNow <= 60
    /\ IsBoundary(nextRefreshTime)
    /\ (lastAutoRefresh # NoRefresh) =>
           /\ EarliestBoundaryAfter(lastAutoRefresh.next, lastAutoRefresh.read)
           /\ lastAutoRefresh.next > lastAutoRefresh.at
           /\ lastAutoRefresh.at >= lastAutoRefresh.boundary
           /\ lastAutoRefresh.next > lastAutoRefresh.boundary
           /\ nextRefreshTime > lastAutoRefresh.boundary
    /\ (lastAutoRefresh.read = clockNow) => nextRefreshTime > clockNow
    /\ lastManualRefresh.after = lastManualRefresh.before

C24_Witness ==
    /\ autoRefreshes = 2
    /\ lastAutoRefresh.boundary = Midnight
    /\ lastAutoRefresh.at = Midnight
    /\ nextRefreshTime = MakeDate(1, 0, 30)
    /\ lastManualRefresh.before = Midnight
    /\ lastManualRefresh.after = Midnight

\* ------------------------------------- claims on analyzeKLineWithAIStream
TerminalCallback(call) == call.callback \in {"onComplete", "onError"}

\* C29: a call that has returned has invoked exactly one of onComplete and
\* onError, once, as its last callback, and a call that has not returned has
\* invoked neither; each onChunk got the fullText of the onChunk before it
\* (the empty text for the first) followed by its chunk.
C29_OneTerminalCallback ==
    /\ \A i \in 1..Len(streamLog) :
           TerminalCallback(streamLog[i]) => i = Len(streamLog)
    /\ (streamPc = "returned") <=>
           (streamLog # <<>> /\ TerminalCallback(streamLog[Len(streamLog)]))
    /\ \A i \in 1..Len(streamLog) :
           streamLog[i].callback = "onChunk" =>
               /\ streamLog[i].chunk # <<>>
               /\ streamLog[i].fullText =
                      (IF i = 1 THEN <<>> ELSE streamLog[i - 1].fullText)
                          \o streamLog[i].chunk

C29_Witness ==
    /\ streamPc = "returned"
    /\ streamReads = 2
    /\ Len(streamLog) = 3
    /\ streamLog[2] = OnChunk(<<"b">>, <<"a", "b">>)
    /\ streamLog[3] = OnComplete(<<"a", "b">>)

====
